---- MODULE Spec2Model ----
(***************************************************************************)
(* Note publication state machine and engagement ledger of the notes       *)
(* server (src/main/main.py).  Each HTTP handler is one action; the        *)
(* check-then-act toggle handlers are also modelled statement by statement *)
(* so that concurrent requests interleave between their database calls.    *)
(***************************************************************************)
EXTENDS Integers, FiniteSets, Sequences, TLC

(* ------------------------------ bounds ------------------------------- *)

\* number of notes ever created (note ids are 1..MaxNotes)
MaxNotes == 2
\* the wall clock takes the values 1..MaxTime
MaxTime == 2
\* number of toggle requests started in one behaviour of the race model
MaxReqs == 3
\* largest page number and page size of a list request
MaxPage == 2
\* number of comments ever created (comment ids are 1..MaxComments)
MaxComments == 3

Users    == {"u1", "u2"}
\* the users who write notes in the note store model
Authors  == {"u1"}
NoteIds  == 1..MaxNotes
Times    == 1..MaxTime
Titles   == {"t1"}
Contents == {"c1", "c2"}
Kinds    == {"like", "favorite"}
\* the server's workers: each handles one request at a time
Procs    == {"p1", "p2"}

(* Optional[T]: None is the empty set, a present value x is {x}. *)
None      == {}
Some(x)   == {x}
The(o)    == CHOOSE x \in o : TRUE
Opt(S)    == {None} \cup {Some(x) : x \in S}

\* status strings a request body may carry: NoteCreate.status and
\* NoteUpdate.status are Optional[str], not validated
StatusStrings == {"private", "draft", "public", "archived", ""}

VARIABLES
    notes,        \* note table: id -> row, for the ids stored
    nextNoteId,   \* next primary key of the note table
    rels,         \* like and favorite tables: kind -> set of rows [id, user_id, note_id]
    nextRelId,    \* next primary key of the like and of the favorite table
    now,          \* last value read from the wall clock
    last,         \* the most recent completed request and its response
    procs,        \* the toggle request each worker is handling, statement by statement
    nreqs,        \* toggle requests started so far
    comments,     \* comment table: id -> row, for the ids stored
    nextCommentId \* next primary key of the comment table

vars == <<notes, nextNoteId, rels, nextRelId, now, last, procs, nreqs,
          comments, nextCommentId>>

likes     == rels["like"]
favorites == rels["favorite"]

NoLast == [op |-> "none"]
Idle   == [pc |-> "idle"]

(* -------------------------- note store ------------------------------- *)

\* session.get(Note, note_id): the row, or None
GetNote(note_id) == IF note_id \in DOMAIN notes THEN Some(notes[note_id]) ELSE None

\* the status a note had when the request read it (None: no such note)
StatusOf(note_id) ==
    IF note_id \in DOMAIN notes THEN Some(notes[note_id].status) ELSE None

\* mutant: the handler checks only that the note exists
NotOwned_ExistsOnly(note_id, user) == note_id \notin DOMAIN notes

\* "if not note or note.user_id != current_user.id: raise HTTPException(404)"
NotOwned(note_id, user) ==
    \/ note_id \notin DOMAIN notes
    \/ notes[note_id].user_id # user

\* the response of a note request, with what the request was and the status
\* the note had when the request arrived (was)
Response(op, user, note_id, status, code) ==
    [op |-> op, user |-> user, note_id |-> note_id, status |-> status,
     code |-> code, was |-> StatusOf(note_id)]

\* mutant: the handler removes the row before it checks the owner
NotFound_AfterWrite(op, user, note_id, status) ==
    /\ last' = Response(op, user, note_id, status, 404)
    /\ notes' = [n \in DOMAIN notes \ {note_id} |-> notes[n]]
    /\ UNCHANGED <<nextNoteId, rels, nextRelId, now, procs, nreqs, comments, nextCommentId>>

\* a request that ended in HTTPException(status_code=404): nothing is written
NotFound(op, user, note_id, status) ==
    /\ last' = Response(op, user, note_id, status, 404)
    /\ UNCHANGED <<notes, nextNoteId, rels, nextRelId, now, procs, nreqs, comments, nextCommentId>>

\* session.add(note); session.commit(): one note row written, response 200
Commit(op, user, note_id, status, row, t) ==
    /\ notes' = [n \in DOMAIN notes \cup {note_id} |->
                    IF n = note_id THEN row ELSE notes[n]]
    /\ now' = t
    /\ last' = Response(op, user, note_id, status, 200)
    /\ UNCHANGED <<rels, nextRelId, procs, nreqs, comments, nextCommentId>>

\* create_note, line 868: status = data.status or "private"
NewNoteStatus(status) ==
    IF status = None \/ status = Some("") THEN "private" ELSE The(status)

\* mutant: create never stamps published_at
NewNotePublishedAt_Never(st, t) == None

\* create_note, lines 872-873: published_at is stamped only for "public"
NewNotePublishedAt(st, t) == IF st = "public" THEN Some(t) ELSE None

\* the row create_note stores; created_at and updated_at are the model's
\* default timestamps
NewNote(user, title, content, status, t) ==
    [user_id |-> user, title |-> title, content |-> content,
     status |-> NewNoteStatus(status),
     published_at |-> NewNotePublishedAt(NewNoteStatus(status), t),
     created_at |-> t, updated_at |-> t]

create_note(user, title, content, status, t) ==
    /\ nextNoteId <= MaxNotes
    /\ now <= t
    /\ Commit("create", user, nextNoteId, status,
              NewNote(user, title, content, status, t), t)
    /\ nextNoteId' = nextNoteId + 1

\* update_note, lines 934-935
UpdatedStatus(note, status) ==
    IF status # None THEN The(status) ELSE note.status

\* mutant: the "and not note.published_at" test is dropped
UpdatedPublishedAt_AlwaysStamp(note, status, t) ==
    IF status = None THEN note.published_at
    ELSE IF The(status) = "public" THEN Some(t)
    ELSE IF The(status) \in {"private", "draft"} THEN None
    ELSE note.published_at

\* update_note, lines 936-941
UpdatedPublishedAt(note, status, t) ==
    IF status = None THEN note.published_at
    ELSE IF The(status) = "public" /\ note.published_at = None THEN Some(t)
    ELSE IF The(status) \in {"private", "draft"} THEN None
    ELSE note.published_at

\* mutant: a missing status is replaced by the default of create
UpdatedRow_DefaultStatus(note, title, content, status, t) ==
    [note EXCEPT !.title = IF title # None THEN The(title) ELSE @,
                 !.content = IF content # None THEN The(content) ELSE @,
                 !.status = IF status # None THEN The(status) ELSE "private",
                 !.published_at = UpdatedPublishedAt(note, status, t),
                 !.updated_at = t]

\* update_note, lines 930-944: the row after the field updates
UpdatedRow(note, title, content, status, t) ==
    [note EXCEPT !.title = IF title # None THEN The(title) ELSE @,
                 !.content = IF content # None THEN The(content) ELSE @,
                 !.status = UpdatedStatus(note, status),
                 !.published_at = UpdatedPublishedAt(note, status, t),
                 !.updated_at = t]

update_note(user, note_id, title, content, status, t) ==
    /\ now <= t
    /\ IF NotOwned(note_id, user)
       THEN NotFound("update", user, note_id, status)
       ELSE /\ Commit("update", user, note_id, status,
                      UpdatedRow(notes[note_id], title, content, status, t), t)
            /\ UNCHANGED nextNoteId

\* mutant: publish stamps published_at only when it is empty, as update does
PublishedRow_KeepStamp(note, t) ==
    [note EXCEPT !.status = "public",
                 !.published_at = IF @ = None THEN Some(t) ELSE @,
                 !.updated_at = t]

\* mutant: publish forgets to bump updated_at
PublishedRow_NoBump(note, t) ==
    [note EXCEPT !.status = "public", !.published_at = Some(t)]

\* publish_note, lines 1029-1031
PublishedRow(note, t) ==
    [note EXCEPT !.status = "public", !.published_at = Some(t), !.updated_at = t]

publish_note(user, note_id, t) ==
    /\ now <= t
    /\ IF NotOwned(note_id, user)
       THEN NotFound("publish", user, note_id, None)
       ELSE /\ Commit("publish", user, note_id, None,
                      PublishedRow(notes[note_id], t), t)
            /\ UNCHANGED nextNoteId

\* mutant: the draft handler leaves published_at alone
DraftRow_KeepStamp(note, t) ==
    [note EXCEPT !.status = "draft", !.updated_at = t]

\* save_note_as_draft, lines 1078-1080
DraftRow(note, t) ==
    [note EXCEPT !.status = "draft", !.published_at = None, !.updated_at = t]

save_note_as_draft(user, note_id, t) ==
    /\ now <= t
    /\ IF NotOwned(note_id, user)
       THEN NotFound("draft", user, note_id, None)
       ELSE /\ Commit("draft", user, note_id, None, DraftRow(notes[note_id], t), t)
            /\ UNCHANGED nextNoteId

\* autosave_note, lines 1129-1130
AutosavedRow(note, content, t) ==
    [note EXCEPT !.content = content, !.updated_at = t]

autosave_note(user, note_id, content, t) ==
    /\ now <= t
    /\ IF NotOwned(note_id, user)
       THEN NotFound("autosave", user, note_id, None)
       ELSE /\ Commit("autosave", user, note_id, None,
                      AutosavedRow(notes[note_id], content, t), t)
            /\ UNCHANGED nextNoteId

\* the like and favorite rows left when note note_id is deleted: the rows
\* that reference the note go with it
CascadeRels(r, note_id) ==
    [k \in DOMAIN r |-> {x \in r[k] : x.note_id # note_id}]

\* mutant: the comments of a deleted note stay
CascadeComments_Nothing(tbl, note_id) == tbl

\* the comment rows left when note note_id is deleted
CascadeComments(tbl, note_id) ==
    [c \in {d \in DOMAIN tbl : tbl[d].note_id # note_id} |-> tbl[c]]

\* delete_note: session.delete(note); session.commit()
delete_note(user, note_id) ==
    IF NotOwned(note_id, user)
    THEN NotFound("delete", user, note_id, None)
    ELSE /\ notes' = [n \in DOMAIN notes \ {note_id} |-> notes[n]]
         /\ rels' = CascadeRels(rels, note_id)
         /\ comments' = CascadeComments(comments, note_id)
         /\ last' = Response("delete", user, note_id, None, 200)
         /\ UNCHANGED <<nextNoteId, nextRelId, now, procs, nreqs, nextCommentId>>

\* update_note, publish_note and save_note_as_draft as the steps between
\* their database calls.  The row the handler has after its assignments, by
\* the request it handles.
HandlerRow(op, note, status, t) ==
    IF op = "update" THEN UpdatedRow(note, None, None, status, t)
    ELSE IF op = "publish" THEN PublishedRow(note, t)
    ELSE DraftRow(note, t)

\* session.add(note); session.commit(): the UPDATE the session emits sets
\* the columns whose value differs from the value the session loaded, and
\* leaves the other columns of the stored row as they are
Flushed(stored, loaded, row) ==
    [f \in DOMAIN stored |-> IF row[f] # loaded[f] THEN row[f] ELSE stored[f]]

\* note = session.get(Note, note_id), the 404 check and the assignments to
\* the loaded row; `overlap` tells that the other worker had loaded the same
\* note and not yet committed
note_load(p, op, user, note_id, status, t) ==
    /\ procs[p].pc = "idle"
    /\ nreqs < MaxReqs
    /\ nreqs' = nreqs + 1
    /\ now <= t
    /\ now' = t
    /\ LET others == {q \in Procs \ {p} : /\ procs[q].pc = "loaded"
                                          /\ procs[q].note_id = note_id}
       IN  procs' = [q \in Procs |->
              IF q = p
              THEN IF NotOwned(note_id, user)
                   THEN [pc |-> "done", op |-> op, user |-> user, note_id |-> note_id,
                         status |-> status, code |-> 404, overlap |-> FALSE]
                   ELSE [pc |-> "loaded", op |-> op, user |-> user,
                         note_id |-> note_id, status |-> status, code |-> 0,
                         loaded |-> notes[note_id],
                         row |-> HandlerRow(op, notes[note_id], status, t),
                         overlap |-> others # {}]
              ELSE IF q \in others /\ ~NotOwned(note_id, user)
                   THEN [procs[q] EXCEPT !.overlap = TRUE]
                   ELSE procs[q]]
    /\ UNCHANGED <<notes, nextNoteId, rels, nextRelId, last, comments, nextCommentId>>

\* session.add(note); session.commit()
note_commit(p) ==
    /\ procs[p].pc = "loaded"
    /\ notes' = [notes EXCEPT ![procs[p].note_id] =
                     Flushed(@, procs[p].loaded, procs[p].row)]
    /\ procs' = [procs EXCEPT ![p] =
                     [pc |-> "done", op |-> @.op, user |-> @.user,
                      note_id |-> @.note_id, status |-> @.status, code |-> 200,
                      overlap |-> @.overlap]]
    /\ UNCHANGED <<nextNoteId, rels, nextRelId, now, last, nreqs, comments, nextCommentId>>

\* the response is sent and the worker takes the next request
note_return(p) ==
    /\ procs[p].pc = "done"
    /\ procs' = [procs EXCEPT ![p] = Idle]
    /\ UNCHANGED <<notes, nextNoteId, rels, nextRelId, now, last, nreqs, comments, nextCommentId>>

(* ----------------------------- reads --------------------------------- *)

\* the response of a read of one note: the row returned (None with a 404)
ReadResponse(op, user, note_id, code, data) ==
    [op |-> op, user |-> user, note_id |-> note_id, code |-> code, data |-> data]

\* mutant: a read writes the notes back with updated_at set to the latest
\* time
ReadOnly_Touch ==
    /\ notes' = [n \in DOMAIN notes |-> [notes[n] EXCEPT !.updated_at = MaxTime]]
    /\ UNCHANGED <<nextNoteId, rels, nextRelId, now, procs, nreqs,
                   comments, nextCommentId>>

\* a read changes no table
ReadOnly ==
    UNCHANGED <<notes, nextNoteId, rels, nextRelId, now, procs, nreqs,
                comments, nextCommentId>>

\* get_note_by_id: the caller's own note, 404 otherwise
get_note_by_id(user, note_id) ==
    /\ last' = IF NotOwned(note_id, user)
               THEN ReadResponse("get", Some(user), note_id, 404, None)
               ELSE ReadResponse("get", Some(user), note_id, 200, GetNote(note_id))
    /\ ReadOnly

\* mutant: the public read checks only that the note exists
NotPublic_ExistsOnly(note_id) == note_id \notin DOMAIN notes

\* get_public_note_by_id: "if not note or note.status != 'public'"
NotPublic(note_id) ==
    \/ note_id \notin DOMAIN notes
    \/ notes[note_id].status # "public"

\* get_public_note_by_id: no authentication, any caller
get_public_note_by_id(note_id) ==
    /\ last' = IF NotPublic(note_id)
               THEN ReadResponse("public_get", None, note_id, 404, None)
               ELSE ReadResponse("public_get", None, note_id, 200, GetNote(note_id))
    /\ ReadOnly

\* all orders in which the elements of S can be listed
Perms(S) ==
    {f \in [1..Cardinality(S) -> S] : \A i, j \in DOMAIN f : i # j => f[i] # f[j]}

\* ORDER BY published_at DESC over the note ids S: every order the database
\* may return; rows with equal published_at come in any order
ByPublishedAtDesc(S) ==
    {f \in Perms(S) :
        \A i, j \in DOMAIN f :
            i < j => The(notes[f[i]].published_at) >= The(notes[f[j]].published_at)}

\* .offset(offset).limit(limit) applied to the ordered rows
Slice(rows, offset, limit) ==
    LET hi == IF offset + limit < Len(rows) THEN offset + limit ELSE Len(rows)
    IN  IF offset >= Len(rows) THEN <<>> ELSE SubSeq(rows, offset + 1, hi)

\* mutant: the status filter is missing from the query
DiscoverRows_All == {n \in DOMAIN notes : notes[n].published_at # None}

\* get_discover_notes: where(Note.status == "public")
\*                       .where(Note.published_at.isnot(None))
DiscoverRows ==
    {n \in DOMAIN notes :
        notes[n].status = "public" /\ notes[n].published_at # None}

\* this list request asks for the page after the one the request just
\* before it returned, of the same listing, and that request was itself
\* page 1 or such a next page
NextPage(op, args, page, page_size) ==
    /\ last.op = op /\ last.code = 200
    /\ last.args = args /\ last.page_size = page_size
    /\ last.page + 1 = page
    /\ last.paging

\* mutant: the favorite count is taken from the like table
EntryCounts_LikesTwice(n) ==
    [like_count |-> Cardinality({r \in rels["like"] : r.note_id = n}),
     favorite_count |-> Cardinality({r \in rels["like"] : r.note_id = n}),
     comment_count |-> Cardinality({c \in DOMAIN comments : comments[c].note_id = n})]

\* get_discover_notes, lines 1197-1199: the counts of an entry are
\* len(select(Like / Favorite / Comment).where(note_id == note.id))
EntryCounts(n) ==
    [like_count |-> Cardinality({r \in rels["like"] : r.note_id = n}),
     favorite_count |-> Cardinality({r \in rels["favorite"] : r.note_id = n}),
     comment_count |-> Cardinality({c \in DOMAIN comments : comments[c].note_id = n})]

\* the response of a list request: the ids of the entries, in order, with
\* what the request asked for (args: the caller, author and filters) and,
\* for discover, the counts of each entry.
\* paging and seen record a client that reads page 1, 2, ... in a row:
\* seen is everything the pages read so far have listed
ListResponse(op, args, page, page_size, code, list, total) ==
    [op |-> op, args |-> args, page |-> page, page_size |-> page_size,
     code |-> code, list |-> list, total |-> total,
     counts |-> IF op = "discover"
                THEN [n \in {list[i] : i \in DOMAIN list} |-> EntryCounts(n)]
                ELSE <<>>,
     paging |-> code = 200 /\ (page = 1 \/ NextPage(op, args, page, page_size)),
     seen |-> IF code # 200 THEN <<>>
              ELSE IF page = 1 THEN list
              ELSE IF NextPage(op, args, page, page_size) THEN last.seen \o list
              ELSE <<>>]

\* a paginated query over the note ids in the orders `orders`.  page and
\* page_size are unvalidated ints: a negative OFFSET or LIMIT is an error
\* on PostgreSQL (the request ends in 500) and on SQLite means no offset
\* and no limit
Paginated(op, args, page, page_size, orders, total) ==
    LET offset == (page - 1) * page_size
    IN  \/ /\ offset < 0 \/ page_size < 0
           /\ last' = ListResponse(op, args, page, page_size, 500, <<>>, 0)
        \/ \E rows \in orders :
              last' = ListResponse(op, args, page, page_size, 200,
                        Slice(rows, IF offset < 0 THEN 0 ELSE offset,
                              IF page_size < 0 THEN Len(rows) ELSE page_size),
                        total)

\* get_discover_notes
get_discover_notes(page, page_size) ==
    /\ Paginated("discover", None, page, page_size,
                 ByPublishedAtDesc(DiscoverRows), Cardinality(DiscoverRows))
    /\ ReadOnly

\* search.strip(): the search strings of the model are a title, a string
\* that is part of no title, and a blank
Strip(search) == IF search = " " THEN "" ELSE search

\* Note.title.like("%term%") for the titles and search strings of the model
TitleLike(title, term) == term = "" \/ term = title

\* get_notes: "if status and status in ['private', 'public', 'draft']"
StatusFilterApplies(status) ==
    status # None /\ The(status) \in {"private", "public", "draft"}

\* get_notes: "if search and search.strip()"
SearchApplies(search) ==
    search # None /\ The(search) # "" /\ Strip(The(search)) # ""

\* mutant: the owner filter is missing from the query
MyRows_AllUsers(user, search, status) ==
    {n \in DOMAIN notes :
        /\ StatusFilterApplies(status) => notes[n].status = The(status)
        /\ SearchApplies(search) => TitleLike(notes[n].title, Strip(The(search)))}

\* get_notes: where(Note.user_id == current_user.id), and the status and
\* the title filter when they apply
MyRows(user, search, status) ==
    {n \in DOMAIN notes :
        /\ notes[n].user_id = user
        /\ StatusFilterApplies(status) => notes[n].status = The(status)
        /\ SearchApplies(search) => TitleLike(notes[n].title, Strip(The(search)))}

\* ORDER BY updated_at DESC over the note ids S: every order the database
\* may return
ByUpdatedAtDesc(S) ==
    {f \in Perms(S) :
        \A i, j \in DOMAIN f :
            i < j => notes[f[i]].updated_at >= notes[f[j]].updated_at}

\* get_notes: the caller's own notes
get_notes(user, page, page_size, search, status) ==
    /\ Paginated("my_notes", [user |-> user, search |-> search, status |-> status],
                 page, page_size,
                 ByUpdatedAtDesc(MyRows(user, search, status)),
                 Cardinality(MyRows(user, search, status)))
    /\ ReadOnly

\* mutant: the author filter is missing from the query
AuthorRows_AllAuthors(user_id) ==
    {n \in DOMAIN notes : notes[n].status = "public"}

\* get_user_public_notes: where(Note.user_id == user_id)
\*                          .where(Note.status == "public")
AuthorRows(user_id) ==
    {n \in DOMAIN notes :
        notes[n].user_id = user_id /\ notes[n].status = "public"}

\* get_user_public_notes: no authentication, any user id
get_user_public_notes(user_id, page, page_size) ==
    /\ Paginated("author_notes", user_id, page, page_size,
                 ByPublishedAtDesc(AuthorRows(user_id)),
                 Cardinality(AuthorRows(user_id)))
    /\ ReadOnly

(* ------------------------ engagement ledger -------------------------- *)

\* select(Like).where(Like.user_id == user).where(Like.note_id == note_id)
Matching(rows, user, note_id) ==
    {r \in rows : r.user_id = user /\ r.note_id = note_id}

\* .first(): None for no row, otherwise any one of the rows (no ORDER BY)
First(S) == IF S = {} THEN {None} ELSE {Some(r) : r \in S}

\* mutant: the insert is never committed
Inserted_Nothing(rows, id, user, note_id) == rows

\* mutant: the delete removes every row on the note
Deleted_AllOnNote(rows, row) == {r \in rows : r.note_id # row.note_id}

\* mutant: the delete is never committed
Deleted_Nothing(rows, row) == rows

\* session.delete(row); session.commit(): DELETE ... WHERE id = row.id; a row
\* that is already gone matches nothing and the commit still succeeds
Deleted(rows, row) == {r \in rows : r.id # row.id}

\* mutant: the table takes a second row for the same (user, note)
UniqueViolation_NoConstraint(rows, user, note_id) == FALSE

\* the unique constraint on (user_id, note_id) of the like and favorite tables
UniqueViolation(rows, user, note_id) == Matching(rows, user, note_id) # {}

\* session.add(Like(user_id=..., note_id=...)); session.commit()
Inserted(rows, id, user, note_id) ==
    rows \cup {[id |-> id, user_id |-> user, note_id |-> note_id]}

\* len(session.exec(select(Like).where(Like.note_id == note_id)).all())
CountOn(rows, note_id) == Cardinality({r \in rows : r.note_id = note_id})

\* mutant: the handlers do not look the note up
NoteMissing_Never(note_id) == FALSE

\* note = session.get(Note, note_id); "if not note:" raise 404
NoteMissing(note_id) == note_id \notin DOMAIN notes

\* mutant: the handler inserts whatever the lookup found
ToggleBranch_AlwaysInsert(existing) == "insert"

\* toggle_like line 1383 / toggle_favorite line 1491: "if existing_like:"
ToggleBranch(existing) == IF existing # None THEN "delete" ELSE "insert"

\* mutant: the flag reports the state found, not the state left
IsActive_Stale(branch) == branch = "delete"

\* is_liked / is_favorited: False after the delete, True after the insert
IsActive(branch) == branch = "insert"

\* the response of a toggle request, with whether the relation existed and
\* how many rows the note had when the request arrived, and whether the
\* request just before it was a successful toggle of the same relation
ToggleResponse(kind, user, note_id, code, active, count) ==
    [op |-> "toggle", kind |-> kind, user |-> user, note_id |-> note_id,
     code |-> code, active |-> active, count |-> count,
     was_active |-> Matching(rels[kind], user, note_id) # {},
     count_before |-> CountOn(rels[kind], note_id),
     again |-> /\ last.op = "toggle" /\ last.code = 200 /\ last.kind = kind
               /\ last.user = user /\ last.note_id = note_id]

\* toggle_like / toggle_favorite as one request handled without interleaving
Toggle(kind, user, note_id) ==
    /\ nreqs < MaxReqs
    /\ nreqs' = nreqs + 1
    /\ UNCHANGED <<notes, nextNoteId, now, procs, comments, nextCommentId>>
    /\ IF NoteMissing(note_id)
       THEN /\ last' = ToggleResponse(kind, user, note_id, 404, FALSE, 0)
            /\ UNCHANGED <<rels, nextRelId>>
       ELSE \E existing \in First(Matching(rels[kind], user, note_id)) :
              IF ToggleBranch(existing) = "delete"
              THEN /\ rels' = [rels EXCEPT ![kind] = Deleted(@, The(existing))]
                   /\ last' = ToggleResponse(kind, user, note_id, 200,
                                  IsActive("delete"), CountOn(rels'[kind], note_id))
                   /\ UNCHANGED nextRelId
              ELSE IF UniqueViolation(rels[kind], user, note_id)
              THEN \* IntegrityError at commit, not caught: rollback, 500
                   /\ last' = ToggleResponse(kind, user, note_id, 500, FALSE, 0)
                   /\ UNCHANGED <<rels, nextRelId>>
              ELSE /\ rels' = [rels EXCEPT ![kind] =
                                  Inserted(@, nextRelId[kind], user, note_id)]
                   /\ nextRelId' = [nextRelId EXCEPT ![kind] = @ + 1]
                   /\ last' = ToggleResponse(kind, user, note_id, 200,
                                  IsActive("insert"), CountOn(rels'[kind], note_id))

toggle_like(user, note_id) == Toggle("like", user, note_id)

toggle_favorite(user, note_id) == Toggle("favorite", user, note_id)

\* mutant: the flag tells whether anyone holds the relation
StatusActive_Anyone(rows, caller, note_id) == CountOn(rows, note_id) > 0

\* get_like_count / get_favorite_count: is_liked = False; "if
\* current_user:" is_liked = existing_like is not None
StatusActive(rows, caller, note_id) ==
    /\ caller # None
    /\ First(Matching(rows, The(caller), note_id)) # {None}

\* the response of a status request: the caller (None when the request
\* carries no valid credentials), the status code, count and flag
StatusResponse(kind, caller, note_id, code, count, active) ==
    [op |-> "status", kind |-> kind, caller |-> caller, note_id |-> note_id,
     code |-> code, count |-> count, active |-> active]

\* get_like_count / get_favorite_count: the caller is optional
Status(kind, caller, note_id) ==
    /\ last' = IF NoteMissing(note_id)
               THEN StatusResponse(kind, caller, note_id, 404, 0, FALSE)
               ELSE StatusResponse(kind, caller, note_id, 200,
                                   CountOn(rels[kind], note_id),
                                   StatusActive(rels[kind], caller, note_id))
    /\ ReadOnly

get_like_count(caller, note_id) == Status("like", caller, note_id)

get_favorite_count(caller, note_id) == Status("favorite", caller, note_id)

(* -------------------------- comment thread --------------------------- *)

\* no table other than the comment table changes
OnlyComments ==
    UNCHANGED <<notes, nextNoteId, rels, nextRelId, now, procs, nreqs>>

\* the response of a comment request: what was asked, the status code and
\* the id of the comment stored (None when nothing was stored)
CommentResponse(op, user, note_id, parent_id, comment_id, code, id) ==
    [op |-> op, user |-> user, note_id |-> note_id, parent_id |-> parent_id,
     comment_id |-> comment_id, code |-> code, id |-> id]

\* mutant: the parent id of a request is not checked
InvalidParent_Never(note_id, parent_id) == FALSE

\* create_comment, lines 1676-1679: "if data.parent_id:" is false for None
\* and for 0; otherwise the parent must be stored and be on the same note
InvalidParent(note_id, parent_id) ==
    /\ parent_id # None /\ The(parent_id) # 0
    /\ \/ The(parent_id) \notin DOMAIN comments
       \/ comments[The(parent_id)].note_id # note_id

\* the row create_comment stores.  created_at is the clock read at the
\* insert; inserts are serialised and each reads a later instant than the
\* one before, which is the order of the ids
NewComment(user, note_id, parent_id, content) ==
    [user_id |-> user, note_id |-> note_id, parent_id |-> parent_id,
     content |-> content, created_at |-> nextCommentId]

create_comment(user, note_id, content, parent_id) ==
    /\ OnlyComments
    /\ IF note_id \notin DOMAIN notes
       THEN /\ last' = CommentResponse("comment", user, note_id, parent_id, None,
                                       404, None)
            /\ UNCHANGED <<comments, nextCommentId>>
       ELSE IF InvalidParent(note_id, parent_id)
       THEN /\ last' = CommentResponse("comment", user, note_id, parent_id, None,
                                       400, None)
            /\ UNCHANGED <<comments, nextCommentId>>
       ELSE /\ nextCommentId <= MaxComments
            /\ comments' = [c \in DOMAIN comments \cup {nextCommentId} |->
                              IF c = nextCommentId
                              THEN NewComment(user, note_id, parent_id, content)
                              ELSE comments[c]]
            /\ nextCommentId' = nextCommentId + 1
            /\ last' = CommentResponse("comment", user, note_id, parent_id, None,
                                       200, Some(nextCommentId))

\* session.delete(comment); session.commit(): the row is removed
WithoutComment(tbl, comment_id) ==
    [c \in DOMAIN tbl \ {comment_id} |-> tbl[c]]

\* the comment table once the row comment_id is gone: its replies stay as
\* they are, their parent_id now referring to no stored comment
RepliesOfDeleted(tbl, comment_id) == tbl

\* mutant: any user may delete any comment
NotCommentOwner_Never(comment_id, user) == FALSE

\* delete_comment: "if comment.user_id != current_user.id: raise 403"
NotCommentOwner(comment_id, user) == comments[comment_id].user_id # user

delete_comment(user, comment_id) ==
    /\ OnlyComments
    /\ UNCHANGED nextCommentId
    /\ IF comment_id \notin DOMAIN comments
       THEN /\ last' = CommentResponse("delete_comment", user, None, None,
                                       Some(comment_id), 404, None)
            /\ UNCHANGED comments
       ELSE IF NotCommentOwner(comment_id, user)
       THEN /\ last' = CommentResponse("delete_comment", user, None, None,
                                       Some(comment_id), 403, None)
            /\ UNCHANGED comments
       ELSE /\ comments' = RepliesOfDeleted(WithoutComment(comments, comment_id),
                                            comment_id)
            /\ last' = CommentResponse("delete_comment", user, None, None,
                                       Some(comment_id), 200, None)

\* select(Comment).where(Comment.note_id == note_id)
CommentsOn(note_id) == {c \in DOMAIN comments : comments[c].note_id = note_id}

\* .order_by(Comment.created_at.asc()).all(): the ids in the order returned
ByCreatedAtAsc(S) ==
    CHOOSE f \in Perms(S) :
        \A i, j \in DOMAIN f :
            i < j => comments[f[i]].created_at <= comments[f[j]].created_at

\* mutant: a comment whose parent is not in the lookup becomes a root
Roots_AdoptOrphans(all) ==
    LET IsRoot(c) == \/ comments[c].parent_id = None
                     \/ \A i \in DOMAIN all : Some(all[i]) # comments[c].parent_id
    IN  SelectSeq(all, IsRoot)

\* get_comments, second pass: "if comment.parent_id is None:
\* root_comments.append(comment_data)"
Roots(all) ==
    LET IsRoot(c) == comments[c].parent_id = None
    IN  SelectSeq(all, IsRoot)

\* mutant: a reply is put in front of the replies already there
Replies_Newest(all, parent) ==
    LET IsReply(c) == comments[c].parent_id = Some(parent)
        r == SelectSeq(all, IsReply)
    IN  [i \in DOMAIN r |-> r[Len(r) + 1 - i]]

\* get_comments, second pass: "if comment.parent_id in comments_dict:
\* comments_dict[comment.parent_id]['replies'].append(comment_data)"
Replies(all, parent) ==
    LET IsReply(c) == comments[c].parent_id = Some(parent)
    IN  SelectSeq(all, IsReply)

\* mutant: total counts the root comments only
Total_RootsOnly(all) == Len(Roots(all))

\* "total": len(all_comments)
Total(all) == Len(all)

\* get_comments: the forest as the root sequence and, for every comment in
\* the lookup, its reply sequence
get_comments(note_id) ==
    /\ ReadOnly
    /\ IF note_id \notin DOMAIN notes
       THEN last' = [op |-> "comments", note_id |-> note_id, code |-> 404,
                     list |-> <<>>, replies |-> <<>>, total |-> 0]
       ELSE LET all == ByCreatedAtAsc(CommentsOn(note_id))
            IN  last' = [op |-> "comments", note_id |-> note_id, code |-> 200,
                         list |-> Roots(all),
                         replies |-> [c \in CommentsOn(note_id) |-> Replies(all, c)],
                         total |-> Total(all)]

(* The same handlers statement by statement: each database call of a request
   is one step of the worker handling it, so that requests interleave. *)

\* session.get(Note, note_id); "if not note: raise HTTPException(404)"
toggle_get_note(p, kind, user, note_id) ==
    /\ procs[p].pc = "idle"
    /\ nreqs < MaxReqs
    /\ nreqs' = nreqs + 1
    /\ procs' = [procs EXCEPT ![p] =
            IF NoteMissing(note_id)
            THEN [pc |-> "done", kind |-> kind, user |-> user, note_id |-> note_id,
                  code |-> 404, existing |-> None, active |-> FALSE, count |-> 0,
                  written |-> 0]
            ELSE [pc |-> "select", kind |-> kind, user |-> user, note_id |-> note_id,
                  code |-> 0, existing |-> None, active |-> FALSE, count |-> 0,
                  written |-> 0]]
    /\ UNCHANGED <<notes, nextNoteId, rels, nextRelId, now, last, comments, nextCommentId>>

\* existing_like = session.exec(select(Like)...).first()
toggle_select(p) ==
    /\ procs[p].pc = "select"
    /\ \E existing \in First(Matching(rels[procs[p].kind], procs[p].user,
                                      procs[p].note_id)) :
          procs' = [procs EXCEPT ![p].pc = "write", ![p].existing = existing]
    /\ UNCHANGED <<notes, nextNoteId, rels, nextRelId, now, last, nreqs, comments, nextCommentId>>

\* the delete or the insert, and its commit; `written` records the number
\* of rows on the note in the state the commit leaves
toggle_write(p) ==
    /\ procs[p].pc = "write"
    /\ LET r == procs[p]
           branch == ToggleBranch(r.existing)
       IN  IF branch = "delete"
           THEN /\ rels' = [rels EXCEPT ![r.kind] = Deleted(@, The(r.existing))]
                /\ procs' = [procs EXCEPT ![p].pc = "count",
                                          ![p].active = IsActive(branch),
                                          ![p].written = CountOn(rels'[r.kind], r.note_id)]
                /\ UNCHANGED nextRelId
           ELSE IF UniqueViolation(rels[r.kind], r.user, r.note_id)
           THEN \* IntegrityError at commit, not caught: rollback, 500
                /\ procs' = [procs EXCEPT ![p].pc = "done", ![p].code = 500]
                /\ UNCHANGED <<rels, nextRelId>>
           ELSE /\ rels' = [rels EXCEPT ![r.kind] =
                               Inserted(@, nextRelId[r.kind], r.user, r.note_id)]
                /\ nextRelId' = [nextRelId EXCEPT ![r.kind] = @ + 1]
                /\ procs' = [procs EXCEPT ![p].pc = "count",
                                          ![p].active = IsActive(branch),
                                          ![p].written = CountOn(rels'[r.kind], r.note_id)]
    /\ UNCHANGED <<notes, nextNoteId, now, last, nreqs, comments, nextCommentId>>

\* the count query and the 200 response
toggle_count(p) ==
    /\ procs[p].pc = "count"
    /\ procs' = [procs EXCEPT ![p].pc = "done", ![p].code = 200,
                     ![p].count = CountOn(rels[procs[p].kind], procs[p].note_id)]
    /\ UNCHANGED <<notes, nextNoteId, rels, nextRelId, now, last, nreqs, comments, nextCommentId>>

\* the response is sent and the worker takes the next request
toggle_return(p) ==
    /\ procs[p].pc = "done"
    /\ procs' = [procs EXCEPT ![p] = Idle]
    /\ UNCHANGED <<notes, nextNoteId, rels, nextRelId, now, last, nreqs, comments, nextCommentId>>

(* ------------------------- specifications ---------------------------- *)

Init ==
    /\ notes = <<>>
    /\ nextNoteId = 1
    /\ rels = [k \in Kinds |-> {}]
    /\ nextRelId = [k \in Kinds |-> 1]
    /\ now = 1
    /\ last = NoLast
    /\ procs = [p \in Procs |-> Idle]
    /\ nreqs = 0
    /\ comments = <<>>
    /\ nextCommentId = 1

\* The note store: every note request, one at a time.
Next ==
    \/ \E u \in Authors, ti \in Titles, c \in Contents, s \in Opt(StatusStrings),
          t \in Times : create_note(u, ti, c, s, t)
    \/ \E u \in Users, n \in NoteIds, ti \in Opt(Titles), c \in Opt(Contents),
          s \in Opt(StatusStrings), t \in Times : update_note(u, n, ti, c, s, t)
    \/ \E u \in Users, n \in NoteIds, t \in Times : publish_note(u, n, t)
    \/ \E u \in Users, n \in NoteIds, t \in Times : save_note_as_draft(u, n, t)
    \/ \E u \in Users, n \in NoteIds, c \in Contents, t \in Times :
            autosave_note(u, n, c, t)
    \/ \E u \in Users, n \in NoteIds : delete_note(u, n)

Spec == Init /\ [][Next]_vars

\* The ledger, one request at a time: notes are created private or public
\* and users toggle likes and favorites on them.
NextLedger ==
    \/ \E u \in Authors, s \in {None, Some("public")} :
            create_note(u, "t1", "c1", s, now)
    \/ \E u \in Users, n \in NoteIds : toggle_like(u, n)
    \/ \E u \in Users, n \in NoteIds : toggle_favorite(u, n)
    \/ \E c \in Opt(Users), n \in NoteIds : get_like_count(c, n)
    \/ \E c \in Opt(Users), n \in NoteIds : get_favorite_count(c, n)

SpecLedger == Init /\ [][NextLedger]_vars

\* The ledger under concurrency: the workers interleave between the
\* database calls of the toggle requests they handle.
NextRace ==
    \/ \E u \in Authors : create_note(u, "t1", "c1", Some("public"), now)
    \/ \E p \in Procs, k \in Kinds, u \in Users, n \in NoteIds :
            toggle_get_note(p, k, u, n)
    \/ \E p \in Procs : toggle_select(p)
    \/ \E p \in Procs : toggle_write(p)
    \/ \E p \in Procs : toggle_count(p)
    \/ \E p \in Procs : toggle_return(p)

SpecRace == Init /\ [][NextRace]_vars

\* the statuses of the claimed domain
ValidStatuses == {"private", "draft", "public"}

\* The note store under concurrency: the owner creates notes and sends
\* update, publish and draft requests that two workers handle at once, with
\* statuses of the claimed domain only.
NextNoteRace ==
    \/ \E u \in Authors, s \in Opt(ValidStatuses) :
            create_note(u, "t1", "c1", s, now)
    \/ \E p \in Procs, u \in Authors, n \in NoteIds, s \in Opt(ValidStatuses),
          t \in Times : note_load(p, "update", u, n, s, t)
    \/ \E p \in Procs, u \in Authors, n \in NoteIds, t \in Times :
            note_load(p, "publish", u, n, None, t)
    \/ \E p \in Procs, u \in Authors, n \in NoteIds, t \in Times :
            note_load(p, "draft", u, n, None, t)
    \/ \E p \in Procs : note_commit(p)
    \/ \E p \in Procs : note_return(p)

SpecNoteRace == Init /\ [][NextNoteRace]_vars

\* parent ids a comment request may carry: none, 0, or an id the comment
\* table has handed out or will hand out
CommentIds == 1..MaxComments
ParentIds  == Opt(0..MaxComments)

\* The comment thread: notes are created public and deleted by their owner,
\* users comment, reply, delete their comments and list the thread.
NextThread ==
    \/ \E u \in Authors : create_note(u, "t1", "c1", Some("public"), now)
    \/ \E u \in Users, n \in NoteIds, pa \in ParentIds :
            create_comment(u, n, "c1", pa)
    \/ \E u \in Users, c \in CommentIds : delete_comment(u, c)
    \/ \E n \in NoteIds : get_comments(n)
    \/ \E u \in Users, n \in NoteIds : delete_note(u, n)

SpecThread == Init /\ [][NextThread]_vars

\* the users who like, favorite and comment in the model of note deletion
Readers == {"u2"}

\* Note deletion: readers like, favorite and comment on the notes of an
\* author, who deletes them.
NextCascade ==
    \/ \E u \in Authors : create_note(u, "t1", "c1", Some("public"), now)
    \/ \E u \in Readers, n \in NoteIds : toggle_like(u, n)
    \/ \E u \in Readers, n \in NoteIds : toggle_favorite(u, n)
    \/ \E u \in Readers, n \in NoteIds : create_comment(u, n, "c1", None)
    \/ \E u \in Users, n \in NoteIds : delete_note(u, n)

SpecCascade == Init /\ [][NextCascade]_vars

\* page numbers and page sizes a list request may carry
Pages     == 0..MaxPage
PageSizes == 0..MaxPage

\* The feed: both users write notes and set their status, and anyone reads.
NextFeed ==
    \/ \E u \in Users, s \in Opt(StatusStrings), t \in Times :
            create_note(u, "t1", "c1", s, t)
    \/ \E u \in Users, n \in NoteIds, s \in Opt(StatusStrings), t \in Times :
            update_note(u, n, None, None, s, t)
    \/ \E u \in Users, n \in NoteIds : get_note_by_id(u, n)
    \/ \E n \in NoteIds : get_public_note_by_id(n)
    \/ \E pg \in Pages, sz \in PageSizes : get_discover_notes(pg, sz)
    \/ \E u \in Users, pg \in Pages, sz \in PageSizes :
            get_user_public_notes(u, pg, sz)

SpecFeed == Init /\ [][NextFeed]_vars

\* statuses the notes of the listing specification are given
MineStatuses == {"draft", "public"}

\* The hidden notes: an author writes private, draft and public notes, and
\* a reader and callers without credentials send the requests that take a
\* note id.
NextHidden ==
    \/ \E u \in Authors, s \in Opt(MineStatuses) :
            create_note(u, "t1", "c1", s, now)
    \/ \E u \in Readers, n \in NoteIds : get_note_by_id(u, n)
    \/ \E n \in NoteIds : get_public_note_by_id(n)
    \/ \E u \in Readers, n \in NoteIds : toggle_like(u, n)
    \/ \E u \in Readers, n \in NoteIds : toggle_favorite(u, n)
    \/ \E c \in Opt(Readers), n \in NoteIds : get_like_count(c, n)
    \/ \E c \in Opt(Readers), n \in NoteIds : get_favorite_count(c, n)
    \/ \E u \in Readers, n \in NoteIds : create_comment(u, n, "c1", None)
    \/ \E n \in NoteIds : get_comments(n)

SpecHidden == Init /\ [][NextHidden]_vars

\* titles an update may carry
NewTitles == {"t1", "t2"}

\* The updates: the author creates notes with any status, updates any
\* subset of title, content and status, and autosaves content.
NextFrame ==
    \/ \E u \in Authors, s \in Opt(MineStatuses), t \in Times :
            create_note(u, "t1", "c1", s, t)
    \/ \E u \in Authors, n \in NoteIds, ti \in Opt(NewTitles), c \in Opt(Contents),
          s \in Opt(MineStatuses), t \in Times : update_note(u, n, ti, c, s, t)
    \/ \E u \in Authors, n \in NoteIds, c \in Contents, t \in Times :
            autosave_note(u, n, c, t)

SpecFrame == Init /\ [][NextFrame]_vars

\* The failures: an author writes notes, a reader likes, favorites,
\* comments, replies and deletes comments, and they send requests for
\* notes and comments that are not stored or not theirs.
NextFail ==
    \/ \E u \in Authors : create_note(u, "t1", "c1", Some("public"), now)
    \/ \E u \in Readers, n \in NoteIds :
            update_note(u, n, None, None, Some("draft"), now)
    \/ \E u \in Readers, n \in NoteIds : publish_note(u, n, now)
    \/ \E u \in Readers, n \in NoteIds : save_note_as_draft(u, n, now)
    \/ \E u \in Readers, n \in NoteIds : autosave_note(u, n, "c2", now)
    \/ \E u \in Readers, n \in NoteIds : delete_note(u, n)
    \/ \E u \in Readers, n \in NoteIds : toggle_like(u, n)
    \/ \E u \in Readers, n \in NoteIds : toggle_favorite(u, n)
    \/ \E u \in Readers, n \in NoteIds, pa \in ParentIds :
            create_comment(u, n, "c1", pa)
    \/ \E u \in Users, c \in CommentIds : delete_comment(u, c)

SpecFail == Init /\ [][NextFail]_vars

\* The reads: an author writes public notes, a reader likes, favorites and
\* comments on them, and anyone reads the feed lists, a public note, the
\* like and favorite status and the comment list.
NextReads ==
    \/ \E u \in Authors : create_note(u, "t1", "c1", Some("public"), now)
    \/ \E u \in Readers, n \in NoteIds : toggle_like(u, n)
    \/ \E u \in Readers, n \in NoteIds : toggle_favorite(u, n)
    \/ \E u \in Readers, n \in NoteIds : create_comment(u, n, "c1", None)
    \/ \E pg \in Pages, sz \in PageSizes : get_discover_notes(pg, sz)
    \/ \E u \in Users, s \in Opt(MineStatuses) : get_notes(u, 1, MaxPage, None, s)
    \/ \E u \in Users : get_user_public_notes(u, 1, MaxPage)
    \/ \E n \in NoteIds : get_public_note_by_id(n)
    \/ \E c \in Opt(Users), n \in NoteIds : get_like_count(c, n)
    \/ \E c \in Opt(Users), n \in NoteIds : get_favorite_count(c, n)
    \/ \E n \in NoteIds : get_comments(n)

SpecReads == Init /\ [][NextReads]_vars

\* search strings a list request may carry
SearchStrings == {"t1", "zz", " "}

\* The caller's own notes: both users write notes, set their status and
\* save their content, and list their notes, page by page without filters
\* or filtered on one page.
NextMine ==
    \/ \E u \in Users, s \in Opt(MineStatuses), t \in Times :
            create_note(u, "t1", "c1", s, t)
    \/ \E u \in Users, n \in NoteIds, s \in Opt(MineStatuses), t \in Times :
            update_note(u, n, None, None, s, t)
    \/ \E u \in Users, pg \in Pages, sz \in PageSizes :
            get_notes(u, pg, sz, None, None)
    \/ \E u \in Users, q \in Opt(SearchStrings), s \in Opt(StatusStrings) :
            get_notes(u, 1, MaxPage, q, s)

SpecMine == Init /\ [][NextMine]_vars

(* ----------------------- note store properties ----------------------- *)

\* the step just taken completed request `op` on note n with a 200 response
Did(op, n) ==
    /\ vars' # vars
    /\ last'.op = op
    /\ last'.code = 200
    /\ last'.note_id = n

\* C1: every stored note has status public if and only if published_at is
\* not null, whatever status values the requests carried.
C1_PublishedIffPublic ==
    \A n \in DOMAIN notes :
        (notes[n].status = "public") <=> (notes[n].published_at # None)

\* C7: update(status=public) right after update(status=public) on the same
\* note leaves published_at as the first call left it; update(status=public)
\* right after update(status=draft) stamps published_at with the time of
\* that last call.
C7_Step(n) ==
    (/\ last.op = "update" /\ last.code = 200 /\ last.note_id = n
     /\ Did("update", n) /\ last'.status = Some("public"))
    => /\ last.status = Some("public")
            => notes'[n].published_at = notes[n].published_at
       /\ last.status = Some("draft")
            => notes'[n].published_at = Some(now')

C7_RepublishByUpdate == [][\A n \in NoteIds : C7_Step(n)]_vars

\* an update(status=public) has just run on a note that was already public,
\* later than its publication, and published_at still holds the earlier time;
\* or it has just run on a draft and published_at is the time of the call
C7_Witness ==
    /\ last.op = "update" /\ last.code = 200 /\ last.status = Some("public")
    /\ last.note_id \in DOMAIN notes
    /\ \/ /\ last.was = Some("public")
          /\ notes[last.note_id].published_at # Some(now)
          /\ notes[last.note_id].updated_at = now
       \/ /\ last.was = Some("draft")
          /\ notes[last.note_id].published_at = Some(now)
          /\ notes[last.note_id].created_at < now

\* C8 (as claimed): every update or publish that finds a note public and
\* leaves it public keeps published_at.
C8_Step(n) ==
    (/\ (Did("update", n) \/ Did("publish", n))
     /\ last'.was = Some("public")
     /\ notes'[n].status = "public")
    => notes'[n].published_at = notes[n].published_at

C8_Original == [][\A n \in NoteIds : C8_Step(n)]_vars

\* C8 (amended): an update that finds a note public and leaves it public
\* keeps published_at; a publish on a public note stamps it again with the
\* time of the call.
C8_AmendedStep(n) ==
    /\ (Did("update", n) /\ last'.was = Some("public") /\ notes'[n].status = "public")
        => notes'[n].published_at = notes[n].published_at
    /\ (Did("publish", n) /\ last'.was = Some("public"))
        => notes'[n].published_at = Some(now')

C8_Amended == [][\A n \in NoteIds : C8_AmendedStep(n)]_vars

\* a note that was public has been updated with status public after the
\* clock moved on
C8_Witness ==
    /\ last.op = "update" /\ last.code = 200 /\ last.status = Some("public")
    /\ last.was = Some("public")
    /\ last.note_id \in DOMAIN notes
    /\ notes[last.note_id].updated_at = now
    /\ notes[last.note_id].published_at # None
    /\ notes[last.note_id].published_at # Some(now)

\* C9: publish by the owner sets status public and sets published_at and
\* updated_at to the time of the call, whatever the note was before.
C9_Step(n) ==
    Did("publish", n)
    => /\ notes[n].user_id = last'.user
       /\ notes'[n].status = "public"
       /\ notes'[n].published_at = Some(now')
       /\ notes'[n].updated_at = now'
       /\ now' >= now

C9_Publish == [][\A n \in NoteIds : C9_Step(n)]_vars

\* a publish has run on a note that was public since an earlier time
C9_Witness ==
    /\ last.op = "publish" /\ last.code = 200
    /\ last.was = Some("public")
    /\ last.note_id \in DOMAIN notes
    /\ notes[last.note_id].created_at < now
    /\ notes[last.note_id].published_at = Some(now)

\* C10: unpublish-to-draft by the owner sets status draft, clears
\* published_at, sets updated_at to the time of the call and keeps title
\* and content.
C10_Step(n) ==
    Did("draft", n)
    => /\ notes[n].user_id = last'.user
       /\ notes'[n].status = "draft"
       /\ notes'[n].published_at = None
       /\ notes'[n].updated_at = now'
       /\ notes'[n].title = notes[n].title
       /\ notes'[n].content = notes[n].content

C10_Draft == [][\A n \in NoteIds : C10_Step(n)]_vars

\* a public note whose content had been edited has been made a draft
C10_Witness ==
    /\ last.op = "draft" /\ last.code = 200
    /\ last.was = Some("public")
    /\ last.note_id \in DOMAIN notes
    /\ notes[last.note_id].content = "c2"
    /\ notes[last.note_id].updated_at > notes[last.note_id].created_at

\* the requests that change a stored note
Mutations == {"update", "publish", "draft", "autosave", "delete"}

\* C11: a note mutation (update, publish, unpublish-to-draft, autosave,
\* delete) requested by a user who does not own the note ends in 404, as it
\* does for a note id that is not stored, and the note table is unchanged.
C11_Step ==
    (/\ vars' # vars
     /\ last'.op \in Mutations
     /\ \/ last'.note_id \notin DOMAIN notes
        \/ notes[last'.note_id].user_id # last'.user)
    => /\ last'.code = 404
       /\ notes' = notes

C11_NotOwnedIsNotFound == [][C11_Step]_vars

\* a delete of a stored note by a user who does not own it has ended in 404
\* and the note is still stored
C11_Witness ==
    /\ last.op = "delete" /\ last.code = 404
    /\ last.note_id \in DOMAIN notes
    /\ notes[last.note_id].user_id # last.user

\* C14 (as claimed): every note that create stores is owned by the caller,
\* has status private and no published_at, and has created_at and
\* updated_at set to the time of the call.
C14_Step(n) ==
    Did("create", n)
    => /\ n \notin DOMAIN notes
       /\ notes'[n].user_id = last'.user
       /\ notes'[n].status = "private"
       /\ notes'[n].published_at = None
       /\ notes'[n].created_at = now'
       /\ notes'[n].updated_at = now'

C14_Original == [][\A n \in NoteIds : C14_Step(n)]_vars

\* C14 (amended): every note that create stores is owned by the caller and
\* has the status the request carries, private when it carries none or an
\* empty one; published_at is the time of the call when that status is
\* public and null otherwise; created_at and updated_at are the time of the
\* call.
C14_AmendedStep(n) ==
    Did("create", n)
    => /\ n \notin DOMAIN notes
       /\ notes'[n].user_id = last'.user
       /\ notes'[n].status = IF last'.status \in {None, Some("")}
                             THEN "private" ELSE The(last'.status)
       /\ notes'[n].published_at = IF last'.status = Some("public")
                                   THEN Some(now') ELSE None
       /\ notes'[n].created_at = now'
       /\ notes'[n].updated_at = now'

C14_Amended == [][\A n \in NoteIds : C14_AmendedStep(n)]_vars

\* a create request that carried status public has stored a public note
\* stamped with the time of the call, after the clock had moved on
C14_Witness ==
    /\ last.op = "create" /\ last.code = 200 /\ last.status = Some("public")
    /\ last.note_id \in DOMAIN notes
    /\ notes[last.note_id].status = "public"
    /\ notes[last.note_id].published_at = Some(now)
    /\ notes[last.note_id].created_at = now
    /\ now > 1

\* C15: the status of every stored note is one of private, draft, public,
\* whatever status values the create and update requests carried.
C15_StatusDomain ==
    \A n \in DOMAIN notes : notes[n].status \in {"private", "draft", "public"}

(* -------------------------- read properties -------------------------- *)

\* C12: the owner-scoped get returns a note, with its row, only to its
\* owner and the public get returns a note only when its status is public;
\* every other get ends in 404 and returns nothing, so no get hands a
\* non-public note to a caller who does not own it.
C12_NoPrivateRead ==
    /\ last.op = "get" =>
          IF /\ last.note_id \in DOMAIN notes
             /\ Some(notes[last.note_id].user_id) = last.user
          THEN last.code = 200 /\ last.data = Some(notes[last.note_id])
          ELSE last.code = 404 /\ last.data = None
    /\ last.op = "public_get" =>
          IF /\ last.note_id \in DOMAIN notes
             /\ notes[last.note_id].status = "public"
          THEN last.code = 200 /\ last.data = Some(notes[last.note_id])
          ELSE last.code = 404 /\ last.data = None

\* the public get of a stored draft owned by someone has ended in 404
C12_Witness ==
    /\ last.op = "public_get" /\ last.code = 404
    /\ last.note_id \in DOMAIN notes
    /\ notes[last.note_id].status = "draft"

\* C20: whatever page and page size the request carries, every note that
\* discover lists has status public.
C20_DiscoverOnlyPublic ==
    last.op = "discover" =>
        \A i \in DOMAIN last.list :
            /\ last.list[i] \in DOMAIN notes
            /\ notes[last.list[i]].status = "public"

\* discover has listed a note while a note that was published and then
\* given another status is stored
C20_Witness ==
    /\ last.op = "discover" /\ last.code = 200
    /\ Len(last.list) = 1
    /\ \E n \in DOMAIN notes :
          notes[n].status # "public" /\ notes[n].published_at # None

\* the notes with status public
PublicNotes == {n \in DOMAIN notes : notes[n].status = "public"}

\* the sort keys of the feed lists
PublishedAt(S) == [n \in S |-> The(notes[n].published_at)]
UpdatedAt(S)   == [n \in S |-> notes[n].updated_at]

\* list is the page `page` of size page_size of the notes S in some order
\* of descending key
IsPageOf(list, S, key, page, page_size) ==
    \E f \in Perms(S) :
        /\ \A i, j \in DOMAIN f : i < j => key[f[i]] >= key[f[j]]
        /\ \A i \in DOMAIN list : (page - 1) * page_size + i \in DOMAIN f
        /\ \A i \in DOMAIN f :
              LET k == i - (page - 1) * page_size
              IN  (k >= 1 /\ k <= page_size) => (k \in DOMAIN list /\ list[k] = f[i])

\* the sequence lists every element of S exactly once
ListsExactlyOnce(f, S) == Len(f) = Cardinality(S) /\ {f[i] : i \in DOMAIN f} = S

\* C21: for page >= 1 and a page size >= 1, discover answers 200 with the
\* slice at offset (page-1)*page_size, at most page_size long, of the
\* public notes in descending published_at, and with total the number of
\* public notes; a client that reads page 1, 2, ... of one state until the
\* pages cover total has been given every public note exactly once.
C21_DiscoverPages ==
    (last.op = "discover" /\ last.page >= 1 /\ last.page_size >= 1)
    => /\ last.code = 200
       /\ IsPageOf(last.list, PublicNotes, PublishedAt(PublicNotes),
                   last.page, last.page_size)
       /\ Len(last.list) <= last.page_size
       /\ last.total = Cardinality(PublicNotes)
       /\ (last.paging /\ last.page * last.page_size >= last.total)
            => ListsExactlyOnce(last.seen, PublicNotes)

\* C23: for page >= 1 and a page size >= 1, the list of an author's notes
\* is what discover returns restricted to the notes of that author: a page
\* of the notes discover selects that the author owns, in descending
\* published_at, with total their number.
C23_AuthorNotes ==
    (last.op = "author_notes" /\ last.page >= 1 /\ last.page_size >= 1)
    => LET S == {n \in DiscoverRows : notes[n].user_id = last.args}
       IN  /\ last.code = 200
           /\ IsPageOf(last.list, S, PublishedAt(S), last.page, last.page_size)
           /\ Len(last.list) <= last.page_size
           /\ last.total = Cardinality(S)

\* the list of an author has returned that author's one public note while
\* the other user has a public note too
C23_Witness ==
    /\ last.op = "author_notes" /\ last.code = 200
    /\ last.page = 1 /\ last.page_size = 1
    /\ last.total = 1 /\ Len(last.list) = 1
    /\ Cardinality(PublicNotes) = 2

\* C22: for page >= 1 and a page size >= 1, and no status filter or one of
\* private, draft, public, the list of the caller's notes answers 200 with
\* a page of the notes the caller owns (of every status without a status
\* filter, of exactly the filtered status with one, and matching the search
\* when one is given) in descending updated_at, and total is the number of
\* those notes.
C22_MyNotes ==
    (/\ last.op = "my_notes" /\ last.page >= 1 /\ last.page_size >= 1
     /\ last.args.status \in {None, Some("private"), Some("draft"), Some("public")})
    => LET S == {n \in DOMAIN notes :
                   /\ notes[n].user_id = last.args.user
                   /\ last.args.status # None
                        => notes[n].status = The(last.args.status)
                   /\ SearchApplies(last.args.search)
                        => TitleLike(notes[n].title, Strip(The(last.args.search)))}
       IN  /\ last.code = 200
           /\ IsPageOf(last.list, S, UpdatedAt(S), last.page, last.page_size)
           /\ \A i \in DOMAIN last.list : notes[last.list[i]].user_id = last.args.user
           /\ last.total = Cardinality(S)

\* the caller and the other user own one draft each, and the caller has
\* listed the drafts and got one note with total 1
C22_Witness ==
    /\ last.op = "my_notes" /\ last.code = 200
    /\ last.args.status = Some("draft") /\ last.args.search = None
    /\ last.total = 1 /\ Len(last.list) = 1
    /\ Cardinality({n \in DOMAIN notes : notes[n].status = "draft"}) = 2
    /\ \E n \in DOMAIN notes : notes[n].user_id # last.args.user

\* the operations that only read
ReadOps == {"discover", "my_notes", "author_notes", "public_get", "status",
            "comments"}

\* C28: a step of discover, of the caller's note list, of an author's note
\* list, of the public read of a note, of a like or favorite status request
\* or of the comment list leaves every note, like, favorite and comment
\* row as it was.
C28_Step ==
    last'.op \in ReadOps => UNCHANGED <<notes, rels, comments>>

C28_ReadsChangeNothing == [][C28_Step]_vars

\* the comment list of a note with one comment has been read while a like
\* and a favorite are stored
C28_Witness ==
    /\ last.op = "comments" /\ last.code = 200 /\ last.total = 1
    /\ rels["like"] # {} /\ rels["favorite"] # {}
    /\ notes # <<>>

\* C32: an update by the owner that provides no status leaves status and
\* published_at as they were; whatever it provides, it leaves the title
\* when it provides no title, the content when it provides no content, and
\* the owner and created_at always, and sets updated_at to the time of the
\* call (published_at follows the status when one is provided).  An
\* autosave by the owner changes nothing but content, which becomes the
\* content sent, and updated_at.
C32_Step(n) ==
    /\ Did("update", n) =>
          \A ti \in Opt(NewTitles), c \in Opt(Contents) :
              update_note(last'.user, n, ti, c, last'.status, now')
              => /\ last'.status = None =>
                       /\ notes'[n].status = notes[n].status
                       /\ notes'[n].published_at = notes[n].published_at
                 /\ ti = None => notes'[n].title = notes[n].title
                 /\ c = None => notes'[n].content = notes[n].content
                 /\ notes'[n].user_id = notes[n].user_id
                 /\ notes'[n].created_at = notes[n].created_at
                 /\ notes'[n].updated_at = now'
                 /\ \A m \in DOMAIN notes \ {n} : notes'[m] = notes[m]
    /\ Did("autosave", n) =>
          /\ \E c \in Contents :
                notes'[n] = [notes[n] EXCEPT !.content = c, !.updated_at = now']
          /\ \A m \in DOMAIN notes \ {n} : notes'[m] = notes[m]

C32_UpdateFrame == [][\A n \in NoteIds : C32_Step(n)]_vars

\* an update that provided only a title has run on a public note at a later
\* time than its publication, and the note is still public with the
\* published_at it had
C32_Witness ==
    /\ last.op = "update" /\ last.code = 200 /\ last.status = None
    /\ last.note_id \in DOMAIN notes
    /\ notes[last.note_id].title = "t2" /\ notes[last.note_id].content = "c1"
    /\ notes[last.note_id].status = "public"
    /\ notes[last.note_id].published_at = Some(1)
    /\ notes[last.note_id].updated_at = 2

\* C33: once two requests of the owner for one note, each an update, a
\* publish or a draft, that both loaded the note before either committed
\* have both committed, the note has status public if and only if its
\* published_at is not null.
C33_RaceKeepsPublishedIffPublic ==
    \A p, q \in Procs :
        (/\ p # q
         /\ procs[p].pc = "done" /\ procs[q].pc = "done"
         /\ procs[p].code = 200 /\ procs[q].code = 200
         /\ procs[p].overlap /\ procs[q].overlap
         /\ procs[p].note_id = procs[q].note_id)
        => LET n == procs[p].note_id
           IN  (notes[n].status = "public") <=> (notes[n].published_at # None)

\* C38: when a client has read the pages 1, 2, ... of discover in one state
\* until they cover total, the set of notes the pages listed is the set of
\* notes for which the public read succeeds, and total is the number of
\* notes with status public.
C38_DiscoverMatchesPublicGet ==
    (/\ last.op = "discover" /\ last.code = 200 /\ last.page_size >= 1
     /\ last.paging /\ last.page * last.page_size >= last.total)
    => /\ {last.seen[i] : i \in DOMAIN last.seen}
             = {n \in DOMAIN notes : ~NotPublic(n)}
       /\ last.total = Cardinality({n \in DOMAIN notes : notes[n].status = "public"})

\* the requests that take a note id and are open to callers other than
\* the owner
NoteIdOps == {"get", "public_get", "toggle", "status", "comment", "comments"}

\* C37: a get, a toggle, a status request, a comment creation and a comment
\* list sent by a caller other than the owner for a stored private or draft
\* note end as they do for a note id that is not stored: in 404, with no
\* row written.
C37_Step ==
    (/\ last'.op \in NoteIdOps
     /\ last'.note_id \in DOMAIN notes
     /\ notes[last'.note_id].status \in {"private", "draft"})
    => /\ last'.code = 404
       /\ UNCHANGED <<notes, rels, comments>>

C37_HiddenNotes == [][C37_Step]_vars

\* the requests that write
WriteOps == {"create", "update", "publish", "draft", "autosave", "delete",
             "toggle", "comment", "delete_comment"}

\* C31: a note mutation, toggle, comment creation or comment deletion that
\* ends in 404, 403 or 400 leaves the notes, likes, favorites and comments
\* as they were before the request.
C31_Step ==
    (last'.op \in WriteOps /\ last'.code \in {400, 403, 404})
    => UNCHANGED <<notes, rels, comments>>

C31_FailuresWriteNothing == [][C31_Step]_vars

\* a reply that names a comment of another note as its parent has been
\* refused with 400 while a like and two comments are stored
C31_Witness ==
    /\ last.op = "comment" /\ last.code = 400
    /\ last.parent_id # None /\ The(last.parent_id) \in DOMAIN comments
    /\ rels["like"] # {} /\ Cardinality(DOMAIN comments) = 2

(* ------------------------- thread properties ------------------------- *)

\* C13: once a note is deleted no like, favorite or comment row refers to
\* it: every stored like, favorite and comment row is on a stored note.
C13_DeleteCascades ==
    /\ \A k \in Kinds : \A r \in rels[k] : r.note_id \in DOMAIN notes
    /\ \A c \in DOMAIN comments : comments[c].note_id \in DOMAIN notes

\* the only note ever created has been deleted by its owner after it got
\* one like, one favorite and a comment, none of which had been removed
C13_Witness ==
    /\ last.op = "delete" /\ last.code = 200
    /\ nextNoteId = 2 /\ notes = <<>>
    /\ nreqs = 2 /\ nextRelId["like"] = 2 /\ nextRelId["favorite"] = 2
    /\ nextCommentId > 1
    /\ likes = {} /\ favorites = {} /\ comments = <<>>

\* C16: a comment request on a stored note that carries a parent id ends in
\* 400 and stores nothing when no stored comment has that id or the comment
\* with that id is on another note, and stores the comment when the parent
\* is a stored comment on the same note.
C16_Step ==
    (/\ vars' # vars
     /\ last'.op = "comment"
     /\ last'.note_id \in DOMAIN notes
     /\ last'.parent_id # None)
    => LET p == The(last'.parent_id)
       IN  IF p \in DOMAIN comments /\ comments[p].note_id = last'.note_id
           THEN /\ last'.code = 200
                /\ The(last'.id) \notin DOMAIN comments
                /\ The(last'.id) \in DOMAIN comments'
                /\ comments'[The(last'.id)].parent_id = Some(p)
           ELSE /\ last'.code = 400
                /\ comments' = comments

C16_InvalidParent == [][C16_Step]_vars

\* C34: every comment a step stores has a null parent_id or the id of a
\* comment that was stored on the same note when the step began, whatever
\* integer the request carried as parent id.
C34_Step ==
    \A c \in DOMAIN comments' \ DOMAIN comments :
        \/ comments'[c].parent_id = None
        \/ /\ The(comments'[c].parent_id) \in DOMAIN comments
           /\ comments[The(comments'[c].parent_id)].note_id = comments'[c].note_id

C34_ParentExisted == [][C34_Step]_vars

\* C17: deleting a comment ends in 404 when no comment has the id and in
\* 403 when the comment belongs to another user, both leaving the table
\* as it is; otherwise exactly that row is removed and every other row,
\* the replies of the deleted comment and their parent_id included, stays
\* as it was.
C17_Step ==
    (vars' # vars /\ last'.op = "delete_comment")
    => LET c == The(last'.comment_id)
       IN  IF c \notin DOMAIN comments
           THEN last'.code = 404 /\ comments' = comments
           ELSE IF comments[c].user_id # last'.user
           THEN last'.code = 403 /\ comments' = comments
           ELSE /\ last'.code = 200
                /\ DOMAIN comments' = DOMAIN comments \ {c}
                /\ \A d \in DOMAIN comments' : comments'[d] = comments[d]

C27_OriginalStep ==
    /\ (last'.op = "delete" /\ last'.note_id \in DOMAIN notes
                            /\ notes[last'.note_id].user_id # last'.user)
       => last'.code = 404
    /\ (last'.op = "delete_comment" /\ The(last'.comment_id) \in DOMAIN comments
            /\ comments[The(last'.comment_id)].user_id # last'.user)
       => last'.code = 404

C27_Original == [][C27_OriginalStep]_vars

\* C27 (amended): deleting a note of another user ends in the same 404 as
\* deleting a note that is not stored and removes nothing; deleting a
\* comment of another user ends in 403 and removes nothing, while deleting
\* a comment that is not stored ends in 404.
C27_AmendedStep ==
    /\ (last'.op = "delete"
          /\ (last'.note_id \in DOMAIN notes
                => notes[last'.note_id].user_id # last'.user))
       => (last'.code = 404 /\ notes' = notes /\ comments' = comments)
    /\ (last'.op = "delete_comment"
          /\ The(last'.comment_id) \in DOMAIN comments
          /\ comments[The(last'.comment_id)].user_id # last'.user)
       => (last'.code = 403 /\ comments' = comments)
    /\ (last'.op = "delete_comment"
          /\ The(last'.comment_id) \notin DOMAIN comments)
       => last'.code = 404

C27_Amended == [][C27_AmendedStep]_vars

\* a user has been refused, with 403, the deletion of a comment that
\* another user wrote on a note
C27_Witness ==
    /\ last.op = "delete_comment" /\ last.code = 403
    /\ The(last.comment_id) \in DOMAIN comments
    /\ comments[The(last.comment_id)].user_id # last.user

\* C30: every stored comment with a parent id has a parent id smaller than
\* its own id, so the chain of parent ids from any comment ends.
C30_ParentsAreOlder ==
    \A c \in DOMAIN comments :
        comments[c].parent_id # None => The(comments[c].parent_id) < c

\* a reply to a reply is stored together with both comments above it
C30_Witness ==
    \E c, d \in DOMAIN comments :
        /\ comments[c].parent_id = Some(d)
        /\ d \in DOMAIN comments /\ comments[d].parent_id # None
        /\ The(comments[d].parent_id) \in DOMAIN comments

\* the elements of a sequence
Range(f) == {f[i] : i \in DOMAIN f}

\* the sequence lists comments in the order they were created, each once
InCreationOrder(f) ==
    \A i, j \in DOMAIN f :
        i < j => comments[f[i]].created_at < comments[f[j]].created_at

\* C18: the roots that the comment list of a note returns are exactly the
\* note's comments without a parent, in creation order; a comment whose
\* parent is stored is in the reply list of that parent; every reply list
\* holds replies to that comment only, in creation order; total is the
\* number of comments stored for the note.
C18_ListForest ==
    (last.op = "comments" /\ last.code = 200)
    => LET S == CommentsOn(last.note_id)
       IN  /\ Range(last.list) = {c \in S : comments[c].parent_id = None}
           /\ InCreationOrder(last.list)
           /\ DOMAIN last.replies = S
           /\ \A c \in S :
                 \A p \in DOMAIN comments :
                    comments[c].parent_id = Some(p)
                        => p \in S /\ c \in Range(last.replies[p])
           /\ \A p \in S :
                 /\ \A c \in Range(last.replies[p]) :
                        c \in S /\ comments[c].parent_id = Some(p)
                 /\ InCreationOrder(last.replies[p])
           /\ last.total = Cardinality(S)

\* the list of a note with comment 1 and its replies 2 and 3 has returned
\* 1 as the only root, with replies 2, 3, and total 3
C18_Witness ==
    /\ last.op = "comments" /\ last.code = 200
    /\ last.list = <<1>>
    /\ last.total = 3
    /\ last.replies[1] = <<2, 3>>

\* the comments that one walk down the returned reply lists adds to S
Below(S) == S \cup UNION {Range(last.replies[c]) : c \in S}

\* the comments reachable from a root of the returned forest (a walk is
\* no longer than the number of comments)
Reachable == Below(Below(Below(Below(Below(Range(last.list))))))

\* comment c hangs, directly or through its ancestors, on a parent id that
\* no stored comment has
RECURSIVE Orphaned(_)
Orphaned(c) ==
    /\ comments[c].parent_id # None
    /\ LET p == The(comments[c].parent_id)
       IN  p \notin DOMAIN comments \/ Orphaned(p)

Places(c) ==
    {<<0, i>> : i \in {j \in DOMAIN last.list : last.list[j] = c}}
    \cup UNION {{<<p, i>> : i \in {j \in DOMAIN last.replies[p] :
                                       last.replies[p][j] = c}} : p \in Reachable}

\* C35: in the forest the comment list of a note returns, a stored comment
\* of the note is reachable from a root exactly when its chain of parent
\* ids ends at a comment without parent and passes stored comments only;
\* every reachable comment is at exactly one place of the forest; the
\* number of reachable comments is at most total, and equals total exactly
\* when the note has no orphaned comment.
C35_ReachableForest ==
    (last.op = "comments" /\ last.code = 200)
    => LET S == CommentsOn(last.note_id)
       IN  /\ Reachable \subseteq S
           /\ \A c \in S : (c \in Reachable) <=> ~Orphaned(c)
           /\ \A c \in Reachable : Cardinality(Places(c)) = 1
           /\ Cardinality(Reachable) <= last.total
           /\ (Cardinality(Reachable) = last.total)
                <=> (\A c \in S : ~Orphaned(c))

\* the list of a note has returned one root, the only reachable comment,
\* and total 2, the second comment being the reply to a deleted comment
C35_Witness ==
    /\ last.op = "comments" /\ last.code = 200
    /\ Len(last.list) = 1 /\ Cardinality(Reachable) = 1
    /\ last.total = 2
    /\ \E c \in CommentsOn(last.note_id) :
          /\ comments[c].parent_id # None
          /\ The(comments[c].parent_id) # 0
          /\ The(comments[c].parent_id) \notin DOMAIN comments

\* C39: for every note discover lists, the like, favorite and comment
\* counts of the entry are the count a like status request, the count a
\* favorite status request and the total a comment list of the note return
\* in the same state.
C39_EntryCounts ==
    (last.op = "discover" /\ last.code = 200)
    => \A n \in DOMAIN last.counts :
          /\ last.counts[n].like_count = CountOn(rels["like"], n)
          /\ last.counts[n].favorite_count = CountOn(rels["favorite"], n)
          /\ last.counts[n].comment_count = Total(ByCreatedAtAsc(CommentsOn(n)))

\* discover has listed a note that has one favorite, no like and two
\* comments
C39_Witness ==
    /\ last.op = "discover" /\ last.code = 200
    /\ \E n \in DOMAIN last.counts :
          /\ last.counts[n].like_count = 0
          /\ last.counts[n].favorite_count = 1
          /\ last.counts[n].comment_count = 2

(* ------------------------- ledger properties ------------------------- *)

\* C2: a toggle on an existing note succeeds; if the relation did not exist
\* it is created and reported active, if it existed it is deleted and
\* reported inactive, and the flag returned equals whether the relation
\* exists after the call.
C2_ToggleContract ==
    last.op = "toggle" =>
        LET rows == Matching(rels[last.kind], last.user, last.note_id)
            n == CountOn(rels[last.kind], last.note_id)
        IN  /\ (last.note_id \in DOMAIN notes) => last.code = 200
            /\ last.code = 200 =>
                /\ ~last.was_active =>
                      last.active /\ Cardinality(rows) = 1 /\ n = last.count_before + 1
                /\ last.was_active =>
                      ~last.active /\ rows = {} /\ n = last.count_before - 1
                /\ last.active <=> rows # {}

\* a toggle has just removed a relation that existed
C2_Witness ==
    /\ last.op = "toggle" /\ last.code = 200
    /\ last.was_active /\ ~last.active

\* C3: two toggles of the same relation, one right after the other, bring
\* the relation back to the state it had before the first and the note's
\* count back to its value before the first.
C3_Step ==
    (/\ last.op = "toggle" /\ last.code = 200
     /\ nreqs' = nreqs + 1
     /\ last'.op = "toggle" /\ last'.code = 200
     /\ last'.kind = last.kind /\ last'.user = last.user
     /\ last'.note_id = last.note_id)
    => /\ last'.active = last.was_active
       /\ (Matching(rels'[last.kind], last.user, last.note_id) # {}) = last.was_active
       /\ CountOn(rels'[last.kind], last.note_id) = last.count_before
       /\ last'.count = last.count_before

C3_ToggleTwice == [][C3_Step]_vars

\* the second of two toggles in a row has removed the relation again while
\* another user's relation on the note stays counted
C3_Witness ==
    /\ last.op = "toggle" /\ last.code = 200 /\ last.again
    /\ ~last.active /\ last.count = 1

\* C24: a status request on a stored note answers 200 with the number of
\* rows of that kind on the note and with the flag telling whether the
\* caller holds the relation; without a caller identity the flag is false
\* and the answer is not 401; no note, like, favorite or comment row
\* changes.
C24_Step ==
    (last'.op = "status" /\ last'.note_id \in DOMAIN notes)
    => /\ last'.code = 200
       /\ last'.count = Cardinality({r \in rels[last'.kind] :
                                        r.note_id = last'.note_id})
       /\ last'.active =
             (/\ last'.caller # None
              /\ \E r \in rels[last'.kind] :
                    r.user_id = The(last'.caller) /\ r.note_id = last'.note_id)
       /\ last'.caller = None => (~last'.active /\ last'.code # 401)
       /\ UNCHANGED <<notes, rels, comments>>

C24_Status == [][C24_Step]_vars

\* a request without credentials has read the status of a note that one
\* user likes
C24_Witness ==
    /\ last.op = "status" /\ last.code = 200 /\ last.kind = "like"
    /\ last.caller = None /\ last.count = 1 /\ ~last.active

\* C25: a toggle on a note id that is not stored ends in 404 and stores or
\* removes no like or favorite row, and every row a step stores is on a
\* note stored at that time.
C25_Step ==
    /\ (/\ last'.op = "toggle" /\ nreqs' = nreqs + 1
        /\ last'.note_id \notin DOMAIN notes)
       => (last'.code = 404 /\ rels' = rels)
    /\ \A k \in Kinds : \A r \in rels'[k] \ rels[k] : r.note_id \in DOMAIN notes

C25_ToggleMissingNote == [][C25_Step]_vars

\* a toggle on a note id that is not stored has ended in 404 while a like
\* of a stored note stays stored
C25_Witness ==
    /\ last.op = "toggle" /\ last.code = 404
    /\ last.note_id \notin DOMAIN notes
    /\ rels["like"] # {}

\* C36: a toggle by a user of one kind on a note adds or removes at most
\* one row, and only a row of that user, that note and that kind; the rows
\* of other users, other notes and the other kind, and every note and
\* comment, stay as they were.
C36_Step ==
    (last'.op = "toggle" /\ nreqs' = nreqs + 1)
    => LET Changed(k) == (rels[k] \ rels'[k]) \cup (rels'[k] \ rels[k])
       IN  /\ notes' = notes
           /\ comments' = comments
           /\ \A k \in Kinds \ {last'.kind} : rels'[k] = rels[k]
           /\ Cardinality(Changed(last'.kind)) <= 1
           /\ \A r \in Changed(last'.kind) :
                 r.user_id = last'.user /\ r.note_id = last'.note_id

C36_ToggleFrame == [][C36_Step]_vars

\* a user has removed a relation to a note while another user's relation
\* of the same kind to the same note stays stored
C36_Witness ==
    /\ last.op = "toggle" /\ last.code = 200 /\ ~last.active
    /\ \E r \in rels[last.kind] :
          r.user_id # last.user /\ r.note_id = last.note_id

\* C26 (as claimed): a toggle request sent again right after it was
\* applied leaves the relation as the first request left it.
C26_Original ==
    (last.op = "toggle" /\ last.code = 200 /\ last.again)
    => (Matching(rels[last.kind], last.user, last.note_id) # {}) = last.was_active

\* C26 (amended): a toggle request sent again right after it was applied
\* reverses it: the relation the first request created is removed, the
\* relation it removed is created again, and the flag returned is the
\* opposite of the one the first request returned.
C26_Amended ==
    (last.op = "toggle" /\ last.code = 200 /\ last.again)
    => /\ (Matching(rels[last.kind], last.user, last.note_id) = {}) = last.was_active
       /\ last.active = ~last.was_active

\* the third of three toggles in a row has created the relation again
C26_Witness ==
    /\ last.op = "toggle" /\ last.code = 200 /\ last.again
    /\ last.active /\ nreqs = 3

\* C29: when the only two requests made so far are toggles by two users,
\* handled by the two workers at the same time, the count a toggle returns
\* is the number of rows of that kind on the note in the state its own
\* insert or delete left.
C29_CountAfterOwnWrite ==
    \A p, q \in Procs :
        (/\ p # q /\ nreqs = 2
         /\ procs[p].pc = "done" /\ procs[p].code = 200
         /\ procs[q].pc # "idle" /\ procs[q].user # procs[p].user)
            => procs[p].count = procs[p].written

\* two finished or unfinished requests of the two workers for one relation
SameRelation(p, q) ==
    /\ procs[p].pc # "idle" /\ procs[q].pc # "idle"
    /\ procs[p].kind = procs[q].kind
    /\ procs[p].user = procs[q].user
    /\ procs[p].note_id = procs[q].note_id

\* C4: in every state reached by interleaving the steps of concurrent
\* toggles there is at most one like row and at most one favorite row per
\* (user, note).
C4_AtMostOneRelation ==
    \A k \in Kinds, u \in Users, n \in NoteIds :
        Cardinality(Matching(rels[k], u, n)) <= 1

\* two requests for one relation both found no row, both went on to their
\* insert, and one row is stored
C4_Witness ==
    \E p, q \in Procs :
        /\ p # q /\ SameRelation(p, q)
        /\ procs[p].pc \in {"count", "done"} /\ procs[q].pc \in {"count", "done"}
        /\ procs[p].code # 404 /\ procs[q].code # 404
        /\ procs[p].existing = None /\ procs[q].existing = None
        /\ Cardinality(Matching(rels[procs[p].kind], procs[p].user,
                                procs[p].note_id)) = 1

\* C5: no toggle request ends in a server error: an insert that collides
\* with a concurrent insert and a delete of a row already removed both end
\* in a 200 response.
C5_NoServerError ==
    \A p \in Procs : procs[p].pc = "done" => procs[p].code # 500

\* the only two toggle requests made so far were for one relation of an
\* existing note and both have completed
TwoDuplicatesDone(p, q) ==
    /\ p # q /\ nreqs = 2 /\ SameRelation(p, q)
    /\ procs[p].pc = "done" /\ procs[q].pc = "done"
    /\ procs[p].code # 404 /\ procs[q].code # 404

\* C6 (as claimed): with no relation at the start, once two duplicate
\* toggle requests have completed exactly one row of the relation exists,
\* for every interleaving.
C6_Original ==
    \A p, q \in Procs :
        TwoDuplicatesDone(p, q) =>
            Cardinality(Matching(rels[procs[p].kind], procs[p].user,
                                 procs[p].note_id)) = 1

\* C6 (amended): with no relation at the start, once two duplicate toggle
\* requests have completed exactly one row exists when both looked the
\* relation up before either wrote, and none when the second looked it up
\* after the first had written.
C6_Amended ==
    \A p, q \in Procs :
        TwoDuplicatesDone(p, q) =>
            Cardinality(Matching(rels[procs[p].kind], procs[p].user,
                                 procs[p].note_id))
              = IF procs[p].existing = None /\ procs[q].existing = None
                THEN 1 ELSE 0

\* both duplicate requests have completed after both found no row
C6_Witness ==
    \E p, q \in Procs :
        /\ TwoDuplicatesDone(p, q)
        /\ procs[p].existing = None /\ procs[q].existing = None

====
